---- MODULE Spec2Model ----
(***************************************************************************)
(* The fan-out gateway of services/gateway/main.py: one asyncio event loop *)
(* running sub_task (channel -> queue), batch_task (queue -> frame ->      *)
(* every client) and one live() handler per websocket connection.          *)
(* A step of the model is what one coroutine does between two awaits.      *)
(***************************************************************************)
EXTENDS Integers, Sequences, FiniteSets, TLC

\* ------------------------------------------------------------------ bounds
\* capacity of the ingest queue; stands for asyncio.Queue(maxsize=1000)
maxsize == 2
\* number of websocket connections that are ever opened
MaxHandles == 2

\* number of channel messages that are ever received
MaxMessages == 3
\* number of times asyncio.sleep returns in batch_task
MaxTicks == 2

Handles == 1 .. MaxHandles
NoHandle == 0

\* ------------------------------------------------ channel payloads and JSON
\* the event the producer publishes in its round i (ingest-tls run(): the
\* domain is f"ex{i}.com"; the other fields do not matter to the gateway)
evt(i) == [domain |-> "ex" \o ToString(i) \o ".com"]

\* json.dumps of one event record (default separators ", " and ": ")
dumps_item(v) == "{\"domain\": \"" \o v.domain \o "\"}"

\* the event records of the rounds the model reaches
Events == {evt(i) : i \in 0 .. MaxMessages - 1}

\* the round in which the producer published the record v
round(v) == CHOOSE i \in 0 .. MaxMessages - 1 : evt(i) = v

\* a text on the channel that is not JSON
Malformed == "oops"

\* json.loads accepts the text
IsJSON(s) == \E v \in Events : dumps_item(v) = s

\* json.loads(s) for a text it accepts
json_loads(s) == CHOOSE v \in Events : dumps_item(v) = s

RECURSIVE dumps_list(_)
dumps_list(b) ==
    IF b = <<>> THEN ""
    ELSE IF Len(b) = 1 THEN dumps_item(b[1])
    ELSE dumps_item(b[1]) \o ", " \o dumps_list(Tail(b))

\* json.dumps({"type":"tls","items":batch})
json_dumps(b) == "{\"type\": \"tls\", \"items\": [" \o dumps_list(b) \o "]}"

\* ------------------------------------------------------------------- state
VARIABLES
    queue,      \* asyncio.Queue: the payloads held, oldest first
    sub_pc,     \* sub_task: "subscribe", "listen", "put" (suspended in queue.put),
                \* or the exception that ended it
    msg,        \* sub_task: the payload of the suspended put, as <<data>>, or <<>>
    clients,    \* the set of registered websockets
    live_pc,    \* live(ws) per handle: "accept", "open", "closed"
    batch_pc,   \* batch_task: "sleep", "send", or the exception that ended it
    batch,      \* batch_task local: the records of the current tick
    payload,    \* batch_task local: the frame text of the current broadcast
    dead,       \* batch_task local: the handles whose send raised (the list's
                \* order and repeats do not matter to lines 45-46: a set)
    ws,         \* batch_task local: the handle of the send in progress
    it_used,    \* set iterator: len(clients) when `for ws in clients` began
    it_rest,    \* set iterator: the entries at table slots not yet passed
    drained,    \* history: the payloads taken by get_nowait in the current tick
    sends,      \* history: per handle, the send attempts of the current broadcast
    whole,      \* history: the handles registered since the broadcast began
    received,   \* history: the number of channel messages received
    ticks,      \* history: the number of ticks begun
    batched     \* history: every record that an earlier or the current tick
                \* put into its batch is of a round below this number

vars == <<queue, sub_pc, msg, clients, live_pc, batch_pc, batch, payload, dead,
          ws, it_used, it_rest, drained, sends, whole, received, ticks, batched>>

sub_vars == <<queue, sub_pc, msg, received>>
batch_locals == <<batch, payload, dead, ws, drained, sends, ticks, batched>>

Init ==
    /\ queue = <<>>
    /\ sub_pc = "subscribe"
    /\ msg = <<>>
    /\ clients = {}
    /\ live_pc = [h \in Handles |-> "accept"]
    /\ batch_pc = "sleep"
    /\ batch = <<>>
    /\ payload = ""
    /\ dead = {}
    /\ ws = NoHandle
    /\ it_used = 0
    /\ it_rest = {}
    /\ drained = <<>>
    /\ sends = [h \in Handles |-> <<>>]
    /\ whole = {}
    /\ received = 0
    /\ ticks = 0
    /\ batched = 0

\* ---------------------------------------------------------------- sub_task
\* ps.subscribe("events.tls"); the subscribe confirmation that listen()
\* yields first has type "subscribe" and is ignored
Subscribe ==
    /\ sub_pc = "subscribe"
    /\ sub_pc' = "listen"
    /\ UNCHANGED <<queue, msg, received, clients, live_pc, batch_pc,
                   batch_locals, it_used, it_rest, whole>>

\* a queue that never reports itself full (maxsize ignored)
full_never(q) == FALSE

\* Queue.full()
full(q) == Len(q) >= maxsize

\* await queue.put(data): put_nowait when there is room, else suspend
put(data) ==
    IF full(queue)
    THEN /\ sub_pc' = "put"
         /\ msg' = <<data>>
         /\ UNCHANGED queue
    ELSE /\ queue' = Append(queue, data)
         /\ UNCHANGED <<sub_pc, msg>>

\* what the channel can deliver as its next message: the producer's event of
\* this round, or a text of another publisher that is not JSON
Published == {dumps_item(evt(received)), Malformed}

\* a message of type "message" arrives on the channel
OnMessage(data) ==
    /\ sub_pc = "listen"
    /\ received < MaxMessages
    /\ received' = received + 1
    /\ put(data)
    /\ UNCHANGED <<clients, live_pc, batch_pc, batch_locals, it_used, it_rest,
                   whole>>

\* the suspended put is woken once a get has made room
PutResume ==
    /\ sub_pc = "put"
    /\ ~full(queue)
    /\ queue' = Append(queue, msg[1])
    /\ sub_pc' = "listen"
    /\ msg' = <<>>
    /\ UNCHANGED <<received, clients, live_pc, batch_pc, batch_locals, it_used, it_rest,
                   whole>>

\* the connection to the channel breaks while listen() awaits a message: the
\* ConnectionError leaves the `async for` of line 23 and sub_task ends
ChannelDisconnect ==
    /\ sub_pc = "listen"
    /\ sub_pc' = "ConnectionError"
    /\ UNCHANGED <<queue, msg, received, clients, live_pc, batch_pc,
                   batch_locals, it_used, it_rest, whole>>

\* -------------------------------------------------------------- batch_task
\* a drain loop that puts each record in front of the batch
RECURSIVE get_loop_lifo(_, _, _)
get_loop_lifo(q, b, d) ==
    IF q = <<>>
    THEN [queue |-> q, batch |-> b, drained |-> d, exc |-> "QueueEmpty"]
    ELSE IF ~IsJSON(Head(q))
    THEN [queue |-> Tail(q), batch |-> b, drained |-> Append(d, Head(q)),
          exc |-> "JSONDecodeError"]
    ELSE get_loop_lifo(Tail(q), <<json_loads(Head(q))>> \o b, Append(d, Head(q)))

\* lines 30-35: get_nowait and json.loads, item after item, until one of them
\* raises; q is what the queue still holds, b the batch, d the payloads taken
RECURSIVE get_loop(_, _, _)
get_loop(q, b, d) ==
    IF q = <<>>
    THEN [queue |-> q, batch |-> b, drained |-> d, exc |-> "QueueEmpty"]
    ELSE IF ~IsJSON(Head(q))
    THEN [queue |-> Tail(q), batch |-> b, drained |-> Append(d, Head(q)),
          exc |-> "JSONDecodeError"]
    ELSE get_loop(Tail(q), Append(b, json_loads(Head(q))), Append(d, Head(q)))

\* the set iterator's check: the set has another size than when the loop began
changed_size(s, used) == Cardinality(s) # used

\* the iterator after clients.add(h) during the loop: the new entry lands
\* before or after the iterator's slot, and an add that resizes the table
\* moves every entry, passed or not
iter_add(rest, s, h) == SUBSET (s \cup {h})

\* an iterator over a copy of the set, which a discard does not reach
iter_discard_copy(rest, h) == rest

\* the iterator after clients.discard(h) during the loop: the entry becomes a
\* dummy, which the iterator skips
iter_discard(rest, h) == rest \ {h}

\* set.remove(h), which raises KeyError for a handle that is not in the set
set_remove(s, h) ==
    [set |-> s \ {h}, exc |-> IF h \in s THEN "none" ELSE "KeyError"]

\* clients.discard(h): the set without h, and no exception, member or not
discard(s, h) == [set |-> s \ {h}, exc |-> "none"]

\* lines 45-46: `for ws in dead: clients.discard(ws)`
discard_dead(s, dd) ==
    [set |-> s \ dd,
     exc |-> IF \E h \in dd : discard(s, h).exc # "none" THEN "KeyError"
             ELSE "none"]

\* one send attempt, as the history records it
attempt(h, text) ==
    [registered |-> h \in clients, text |-> text, result |-> "pending"]

\* `for ws in clients`: the iterator's next step and, when there is one, the
\* start of ws.send_text(payload); when exhausted, lines 45-46
for_next(dd, ss) ==
    IF changed_size(clients, it_used)
    THEN /\ batch_pc' = "RuntimeError"
         /\ ws' = NoHandle
         /\ it_used' = 0
         /\ it_rest' = {}
         /\ sends' = ss
         /\ UNCHANGED <<clients, whole>>
    ELSE IF it_rest = {}
    THEN /\ batch_pc' = (IF discard_dead(clients, dd).exc = "none" THEN "sleep"
                        ELSE discard_dead(clients, dd).exc)
         /\ ws' = NoHandle
         /\ clients' = discard_dead(clients, dd).set
         /\ whole' = whole \ dd
         /\ sends' = ss
         /\ it_used' = 0
         /\ UNCHANGED it_rest
    ELSE \E h \in it_rest :
         /\ batch_pc' = "send"
         /\ ws' = h
         /\ it_rest' = it_rest \ {h}
         /\ sends' = [ss EXCEPT ![h] = Append(@, attempt(h, payload))]
         /\ UNCHANGED <<clients, whole, it_used>>

\* a tick that does not reach line 38: it sends nothing and leaves the
\* registry alone (payload and dead, which still hold the values of the last
\* broadcast, are not read again before lines 38-39 assign them)
no_broadcast ==
    /\ payload' = ""
    /\ dead' = {}
    /\ sends' = [h \in Handles |-> <<>>]
    /\ whole' = {}
    /\ UNCHANGED <<ws, it_used, it_rest, clients>>

\* a batch that is emptied only after a broadcast: the records of a tick
\* that sent nothing are kept for the next tick
kept_batch == IF payload = "" THEN batch ELSE <<>>

\* line 30: every tick starts from an empty batch
new_batch == <<>>

\* asyncio.sleep returns: lines 30-42 up to the await of the first send
Tick ==
    /\ batch_pc = "sleep"
    /\ ticks < MaxTicks
    /\ ticks' = ticks + 1
    /\ LET g == get_loop(queue, new_batch, <<>>) IN
       /\ queue' = g.queue
       /\ batch' = g.batch
       /\ drained' = g.drained
       /\ batched' = IF g.batch = <<>> THEN batched
                     ELSE LET m == 1 + round(g.batch[Len(g.batch)])
                          IN  IF m > batched THEN m ELSE batched
       /\ IF g.exc = "JSONDecodeError"
          THEN /\ batch_pc' = "JSONDecodeError"
               /\ no_broadcast
          ELSE IF g.batch = <<>> \/ clients = {}
          THEN /\ batch_pc' = "sleep"
               /\ no_broadcast
          ELSE /\ payload' = json_dumps(g.batch)
               /\ dead' = {}
               /\ it_used' = Cardinality(clients)
               /\ whole' = clients
               /\ batch_pc' = "send"
               /\ \E h \in clients :
                    /\ ws' = h
                    /\ it_rest' = clients \ {h}
                    /\ sends' = [x \in Handles |->
                                 IF x = h THEN <<attempt(h, payload')>> ELSE <<>>]
               /\ UNCHANGED clients
    /\ UNCHANGED <<sub_pc, msg, received, live_pc>>

\* the result of the send in progress, written into the history
done(r) == [sends EXCEPT ![ws][Len(sends[ws])].result = r]

\* ws.send_text(payload) returns
SendOk ==
    /\ batch_pc = "send"
    /\ live_pc[ws] = "open"
    /\ for_next(dead, done("ok"))
    /\ UNCHANGED <<sub_vars, live_pc, batch, payload, dead, drained, ticks,
                   batched>>

\* ws.send_text(payload) raises: lines 43-44
SendError ==
    /\ batch_pc = "send"
    /\ dead' = dead \cup {ws}
    /\ for_next(dead', done("error"))
    /\ UNCHANGED <<sub_vars, live_pc, batch, payload, drained, ticks, batched>>

\* -------------------------------------------------------------------- live
\* ws.accept() returns and clients.add(ws)
Accept(h) ==
    /\ live_pc[h] = "accept"
    /\ live_pc' = [live_pc EXCEPT ![h] = "open"]
    /\ clients' = clients \cup {h}
    /\ IF batch_pc = "send"
       THEN it_rest' \in iter_add(it_rest, clients, h)
       ELSE UNCHANGED it_rest
    /\ UNCHANGED <<sub_vars, batch_pc, batch_locals, it_used, whole>>

\* a handler that forwards the client's frame into the ingest queue
ReceiveText_forward(h) ==
    /\ live_pc[h] = "open"
    /\ ~full(queue)
    /\ queue' = Append(queue, Malformed)
    /\ UNCHANGED <<sub_pc, msg, received, clients, live_pc, batch_pc,
                   batch_locals, it_used, it_rest, whole>>

\* ws.receive_text() returns a frame of the client, which is ignored
ReceiveText(h) ==
    /\ live_pc[h] = "open"
    /\ UNCHANGED vars

\* ws.receive_text() raises WebSocketDisconnect: clients.discard(ws)
Disconnect(h) ==
    /\ live_pc[h] = "open"
    /\ live_pc' = [live_pc EXCEPT ![h] = IF discard(clients, h).exc = "none"
                                         THEN "closed"
                                         ELSE discard(clients, h).exc]
    /\ clients' = discard(clients, h).set
    /\ it_rest' = iter_discard(it_rest, h)
    /\ whole' = whole \ {h}
    /\ UNCHANGED <<sub_vars, batch_pc, batch_locals, it_used>>

\* ws.accept() or ws.receive_text() raises another exception than
\* WebSocketDisconnect: live(ws) ends and line 59 is not reached
Raise(h) ==
    /\ live_pc[h] \in {"accept", "open"}
    /\ live_pc' = [live_pc EXCEPT ![h] = "closed"]
    /\ UNCHANGED <<sub_vars, clients, batch_pc, batch_locals, it_used, it_rest,
                   whole>>

\* ----------------------------------------------------------- specification
Next ==
    \/ Subscribe
    \/ \E data \in Published : OnMessage(data)
    \/ PutResume
    \/ ChannelDisconnect
    \/ Tick
    \/ SendOk
    \/ SendError
    \/ \E h \in Handles : Accept(h)
    \/ \E h \in Handles : ReceiveText(h)
    \/ \E h \in Handles : Disconnect(h)
    \/ \E h \in Handles : Raise(h)

Spec == Init /\ [][Next]_vars

\* ================================================================== claims
\* the records of the texts of d that json.loads accepts, in d's order
RECURSIVE loads_all(_)
loads_all(d) ==
    IF d = <<>> THEN <<>>
    ELSE IF IsJSON(Head(d)) THEN <<json_loads(Head(d))>> \o loads_all(Tail(d))
    ELSE loads_all(Tail(d))

\* the longest prefix of q that holds JSON texts only
RECURSIVE json_prefix(_)
json_prefix(q) ==
    IF q = <<>> \/ ~IsJSON(Head(q)) THEN <<>>
    ELSE <<Head(q)>> \o json_prefix(Tail(q))

\* the send attempts on h in the current broadcast that returned
ok_sends(h) == SelectSeq(sends[h], LAMBDA a : a.result = "ok")

\* C1: in every reachable state the queue holds at most maxsize payloads.
QueueBounded == Len(queue) <= maxsize

\* C1 witness: a message has arrived at a full queue, which still holds
\* maxsize payloads
QueueAtCapacity == Len(queue) = maxsize /\ sub_pc = "put"

\* C2: a message that arrives while the queue is at capacity is dropped: the
\* queue is unchanged and the receive loop is back at listening, not waiting
\* for the batch task.
EnqueueNeverBlocks ==
    [][(sub_pc = "listen" /\ full(queue) /\ received' # received)
       => (queue' = queue /\ sub_pc' = "listen" /\ msg' = <<>>)]_vars

\* C3: a text that is not JSON does not end the batch task, and the batch of
\* every tick is the records of the JSON texts drained, in arrival order.
MalformedSkipped ==
    ticks > 0 => /\ batch_pc # "JSONDecodeError"
                 /\ batch = loads_all(drained)

\* C4: a registry change between two sends of a cycle does not end the batch
\* task, and once the cycle is over every client registered for all of it has
\* been sent the frame.
BroadcastSurvivesRegistryChange ==
    /\ batch_pc # "RuntimeError"
    /\ batch_pc = "sleep" => \A h \in whole : sends[h] # <<>>

\* C5: after a send of the cycle has raised, the cycle still runs to its end:
\* the batch task goes back to sleep and every client registered for all of
\* the cycle has been sent the frame.
SendErrorIsolated ==
    (dead # {} /\ batch_pc # "send")
        => (batch_pc = "sleep" /\ \A h \in whole : sends[h] # <<>>)

\* C6: in a broadcast no client receives more than one frame, and every frame
\* received is the one text json.dumps made of the tick's batch.
OneIdenticalFramePerClient ==
    \A h \in Handles :
        /\ Len(ok_sends(h)) <= 1
        /\ \A i \in 1 .. Len(sends[h]) : sends[h][i].text = json_dumps(batch)

\* C7: the batch a tick builds is the records of the payloads the queue held,
\* oldest first (up to the first text json.loads rejects), so its records
\* are in the order of their arrival, and the frame is made of that batch.
BatchInArrivalOrder ==
    /\ [](\A i, j \in 1 .. Len(batch) : i < j => round(batch[i]) < round(batch[j]))
    /\ [][ticks' # ticks =>
            /\ batch' = loads_all(json_prefix(queue))
            /\ payload' \in {"", json_dumps(batch')}]_vars

\* C7 witness: a broadcast of a batch of two records is in progress
TwoRecordBatchSent == batch_pc = "send" /\ Len(batch) = 2

\* C8: every send attempt targets a handle that is in the registry when the
\* attempt begins.
SendOnlyToRegistered ==
    \A h \in Handles : \A i \in 1 .. Len(sends[h]) : sends[h][i].registered

\* C8 witness: a send has begun on a handle that joined during the broadcast,
\* after the only handle the broadcast began with was removed by its handler
SendAfterRemoval ==
    /\ batch_pc = "send"
    /\ it_used = 1
    /\ ws \notin whole
    /\ \E g \in Handles : /\ g # ws
                          /\ sends[g] # <<>>
                          /\ g \notin clients
                          /\ live_pc[g] = "closed"

\* C9: no handle of a handler that has ended is in the registry.
ClosedNotRegistered ==
    \A h \in Handles : live_pc[h] = "closed" => h \notin clients

\* C10: the batch task never ends: it is asleep until its next tick or in a
\* broadcast.
SchedulerKeepsTicking == batch_pc \in {"sleep", "send"}

\* C11: a tick that finds no JSON payload queued, or no client registered,
\* starts no send, does not end the batch task and leaves the registry as it
\* was.
QuietTickIsNoOp ==
    [][(ticks' # ticks /\ (loads_all(queue) = <<>> \/ clients = {}))
       => /\ batch_pc' = "sleep"
          /\ \A h \in Handles : sends'[h] = <<>>
          /\ clients' = clients]_vars

\* C12: a disconnect of the channel does not end the adapter: sub_task is
\* subscribing, listening or putting, in every reachable state.
AdapterOutlivesDisconnect == sub_pc \in {"subscribe", "listen", "put"}

\* C13: the drain of every tick takes every payload the queue holds: the queue
\* is empty after it, and a second drain right after it would take nothing.
DrainLeavesQueueEmpty ==
    [][ticks' # ticks =>
        /\ queue' = <<>>
        /\ drained' = queue
        /\ get_loop(queue', <<>>, <<>>).drained = <<>>]_vars

\* a send on h has raised in the current broadcast
send_failed(h) == \E i \in 1 .. Len(sends[h]) : sends[h][i].result = "error"

\* C14: while the loop over the clients runs, the batch task leaves the
\* registry as it is; and once the cycle is over, every handle whose send
\* raised is out of the registry, and the handles the batch task took out are
\* handles whose send raised.
EvictAfterIteration ==
    /\ [](batch_pc # "send" => \A h \in Handles : send_failed(h) => h \notin clients)
    /\ [][(batch_pc = "send" /\ live_pc' = live_pc)
            => /\ batch_pc' = "send" => clients' = clients
               /\ \A h \in clients \ clients' : send_failed(h)']_vars

\* C15: removing a handle that is not in the registry raises nothing and
\* leaves the registry as it is, whether the handler removes a handle the
\* batch task has evicted or the batch task evicts a handle its handler has
\* removed; and a handler that has ended never acts again, so it removes its
\* handle at most once.
RemovalIsIdempotent ==
    /\ [](batch_pc # "KeyError" /\ \A h \in Handles : live_pc[h] # "KeyError")
    /\ [][/\ \A h \in Handles :
               /\ (live_pc[h] = "open" /\ live_pc'[h] # "open" /\ h \notin clients)
                     => (clients' = clients /\ live_pc'[h] = "closed")
               /\ live_pc[h] = "closed" => live_pc'[h] = "closed"
          /\ (batch_pc = "send" /\ batch_pc' # "send" /\ dead' \cap clients = {})
                => clients' = clients]_vars

\* C15 witness: a broadcast is over in which the handler of the only handle
\* it began with removed that handle, and the batch task, whose send on it
\* had raised, discarded it again
EvictedAfterRemoval ==
    /\ batch_pc = "sleep"
    /\ \E g \in dead, h \in clients :
          /\ g \notin clients
          /\ live_pc[g] = "closed"
          /\ sends[h] # <<>>
          /\ h \notin whole

\* the frames h has received in the current broadcast that hold the record v
frames_with(h, v) ==
    SelectSeq(ok_sends(h),
              LAMBDA a : a.text = json_dumps(batch)
                         /\ \E i \in 1 .. Len(batch) : batch[i] = v)

\* C16: a tick's batch holds no record that an earlier tick has put into its
\* batch, and no client receives two frames that hold the same record.
EachEventFramedOnce ==
    /\ [](\A h \in Handles : \A v \in Events : Len(frames_with(h, v)) <= 1)
    /\ [][ticks' # ticks =>
            \A i \in 1 .. Len(batch') : round(batch'[i]) >= batched]_vars

\* C17: the queue grows only by a step of the receive loop and shrinks only
\* by the drain of a tick; a step of a connection handler and the end of a
\* send leave the queue as it is, and the registry changes only when a
\* handler accepts or ends or when a broadcast ends (never by a client's
\* inbound frame).
SingleWriterSingleReader ==
    [][/\ Len(queue') > Len(queue)
            => \/ sub_pc = "listen" /\ received' = received + 1
               \/ sub_pc = "put" /\ sub_pc' = "listen"
       /\ (queue' # queue /\ Len(queue') <= Len(queue))
            => (batch_pc = "sleep" /\ ticks' = ticks + 1)
       /\ live_pc' # live_pc => queue' = queue
       /\ (batch_pc = "send" /\ sends' # sends) => queue' = queue
       /\ clients' # clients
            => \/ live_pc' # live_pc
               \/ batch_pc = "send" /\ batch_pc' # "send"]_vars

\* C17 witness: payloads are queued while a broadcast is in progress and a
\* handler has registered and another has ended
QueueHeldDuringBroadcast ==
    /\ batch_pc = "send"
    /\ queue # <<>>
    /\ \E g, h \in Handles : live_pc[g] = "open" /\ live_pc[h] = "closed"

\* C18: the records a tick drains while no client is registered are sent in
\* no frame: that tick starts no send and leaves none of them in the queue,
\* every record of a later batch is of a later round than all records batched
\* before, and every frame sent is the text of the batch of its own tick.
DiscardedNeverFramed ==
    /\ [](\A h \in Handles : \A i \in 1 .. Len(sends[h]) :
              sends[h][i].text = json_dumps(batch))
    /\ [][/\ batched' >= batched
          /\ ticks' # ticks =>
               /\ \A i \in 1 .. Len(batch') :
                      batched <= round(batch'[i]) /\ round(batch'[i]) < batched'
               /\ clients = {} =>
                      /\ \A h \in Handles : sends'[h] = <<>>
                      /\ \A j \in 1 .. Len(queue') :
                            IsJSON(queue'[j])
                                => round(json_loads(queue'[j])) >= batched']_vars

\* C18 witness: a tick has built a batch and sent nothing, a client has
\* registered since, and the next payload is queued for the next tick
ClientAfterDiscard ==
    /\ batch_pc = "sleep"
    /\ ticks = 1
    /\ batch # <<>>
    /\ payload = ""
    /\ clients # {}
    /\ queue # <<>>

====
